---- MODULE Spec2Model ----
(***************************************************************************)
(* NewZeaLiDAR: the dataset crawler's pipeline (src/src/datasets.py) and   *)
(* the catchment/DEM orchestrator (src/src/process.py) as state machines   *)
(* over the relational store they share.                                   *)
(*                                                                         *)
(* Tables are sequences of rows in insertion order (a bag: the code never  *)
(* relies on a uniqueness constraint, src/tables.py is not part of the     *)
(* sources).  Timestamps are readings of a clock that never runs back and  *)
(* has the one-second resolution of strftime('%Y-%m-%d %X'): two calls may *)
(* read the same value.                                                    *)
(***************************************************************************)
EXTENDS Integers, Sequences, FiniteSets, TLC

\* ---------------------------------------------------------------- bounds
MaxClock == 3        \* timestamps are 0..MaxClock
MaxPayload == 2      \* distinct contents a crawled item can have
MaxCatch == 2        \* the Catchment table holds catch_id 1..MaxCatch
MaxReq == 2          \* longest explicit catch_id list passed to run
MaxCalls == 3        \* calls of a handler in one behaviour

\* The value of Python's None / SQL NULL where an integer is expected
\* (ids and catch_ids of the tables are >= 1, requested ids are >= -1).
None == -9

VARIABLES
    clock,      \* last timestamp handed out by pd.Timestamp.now()
    dataset,    \* Dataset table: rows [id, name, payload, created_at, updated_at]
    dem,        \* Dem table: rows [catch_id, raw_dem_path, hydro_dem_path, extent_path, created_at, updated_at]
    calls,      \* number of handler calls made so far (bounds a behaviour)
    last,       \* what the last handler call was given and how it ended
    files,      \* files on disk under DATA_DIR/DEM_DIR: <<data_dir, index, kind>>
    run_pc,     \* position of process.run: "idle", "loop", "done", "aborted"
    run_args,   \* the arguments and environment process.run was called with
    run_st,     \* locals of process.run: catch_id, position, failed, runtime, ...
    trace,      \* per-catchment steps of process.run in the order they happened
    writers,    \* concurrent writers: each one's position and what it has read
    datum,      \* the datum utility: its position, locals and the directories it works on
    frame       \* katana: the call the recursion is in, and what it hands back

vars == <<clock, dataset, dem, calls, last, files, run_pc, run_args, run_st, trace, writers, datum, frame>>

\* ------------------------------------------------------------ sequences
Range(s) == {s[i] : i \in 1..Len(s)}

RECURSIVE SeqMax(_)
SeqMax(s) == IF s = <<>> THEN None
             ELSE LET m == SeqMax(Tail(s)) IN IF m = None \/ Head(s) > m THEN Head(s) ELSE m

\* sequences over S of length 0..n
SeqsUpTo(S, n) == UNION {[1..k -> S] : k \in 0..n}

\* pd.Timestamp.now(): the clock may have advanced by a second, never runs back
Now == {t \in {clock, clock + 1} : t <= MaxClock}

\* the reading after a pass of run's loop, which takes more than a second
Later == IF clock < MaxClock THEN clock + 1 ELSE clock

\* -------------------------------------------------- tables.py primitives
\* SELECT * FROM <table> WHERE name = '<name>'
SelectByName(table, name) == SelectSeq(table, LAMBDA r : r.name = name)

\* get_max_value(engine, 'dataset'): SELECT max(id); NULL on an empty table
get_max_value(table) == SeqMax([i \in 1..Len(table) |-> table[i].id])

\* delete_table(engine, DATASET, 'name', value): DELETE ... WHERE name = value
delete_table(table, name) == SelectSeq(table, LAMBDA r : r.name # name)

\* ------------------------------------------------ datasets.py: the crawler
Names == {"a", "b", "c"}
Payloads == 1..MaxPayload

\* A crawled item as ExtraFilesPipeline.item_completed receives it: the
\* short name, the other scraped fields and derived paths (payload), and
\* whether the downloaded extent file is on disk.  The extent file holds
\* one feature (spec 3: the extent geometry of a Dataset is a polygon).
Items == [name : Names, payload : Payloads, extent_exists : BOOLEAN]

\* python truthiness of an Optional[int]
Truthy(x) == x # None /\ x # 0

\* lines 108-110: the id of a row whose name is not in the table
NewIdOne(_id) == 1
NewId(_id) == IF Truthy(_id) THEN _id + 1 ELSE 1

\* lines 88-105 and 111-116: the row handed to to_postgis.  `found` is the
\* result of the SELECT by name, `_id` what get_max_value returned.
NewRow(item, found, _id, t) ==
    IF found = <<>>
    THEN [id |-> NewId(_id), name |-> item.name, payload |-> item.payload,
          created_at |-> t, updated_at |-> t]
    ELSE \* index-aligned column assignment: row 0 of gdf_from_db
         [id |-> found[1].id, name |-> item.name, payload |-> item.payload,
          created_at |-> found[1].created_at, updated_at |-> t]

\* lines 106-133: the Dataset table after the upsert of `item` at time t
UpsertNoDelete(table, item, t) ==
    LET found == SelectByName(table, item.name)
    IN  Append(table, NewRow(item, found, get_max_value(table), t))
Upsert(table, item, t) ==
    LET found == SelectByName(table, item.name)
    IN  IF found = <<>>
        THEN Append(table, NewRow(item, found, get_max_value(table), t))
        ELSE Append(delete_table(table, item.name),
                    NewRow(item, found, None, t))

\* get_extent_geometry (lines 29-36): the geometry of the extent file, or
\* ValueError when the file is not on disk
get_extent_geometry_unchecked(item) == "geometry"
get_extent_geometry(item) == IF item.extent_exists THEN "geometry" ELSE "ValueError"

\* ExtraFilesPipeline.item_completed, run to completion (scrapy calls the
\* pipeline for one item at a time).
item_completed(item, t) ==
    /\ calls < MaxCalls
    /\ calls' = calls + 1
    /\ clock' = t
    /\ IF get_extent_geometry(item) # "ValueError"
       THEN /\ dataset' = Upsert(dataset, item, t)
            /\ last' = [op |-> "item_completed", item |-> item, t |-> t,
                        before |-> dataset, error |-> "none"]
       ELSE \* get_extent_geometry raises before any statement is issued
            /\ dataset' = dataset
            /\ last' = [op |-> "item_completed", item |-> item, t |-> t,
                        before |-> dataset, error |-> "ValueError"]
    /\ UNCHANGED <<dem, files, run_pc, run_args, run_st, trace, writers, datum, frame>>

NoCall == [op |-> "none"]

InitCrawl ==
    /\ clock = 0
    /\ dataset = <<>>
    /\ dem = <<>>
    /\ calls = 0
    /\ last = NoCall
    /\ files = {}
    /\ run_pc = "idle"
    /\ run_args = NoCall
    /\ run_st = NoCall
    /\ trace = <<>>
    /\ writers = <<>>
    /\ datum = NoCall
    /\ frame = NoCall

\* A metadata page as DatasetSpider.parse_metadata receives it: the short
\* name it shows and what it lacks.  An xpath that matches nothing makes
\* extract()[0] fail; a text the pattern does not match makes search_string
\* raise.
XpathMarkers == {"Short Name", "OT Collection Name", "Survey Date", "Point Density", "Vertical:"}
RegexMarkers == {"MM/DD/YYYY", "Vertical: <label>"}
Pages == [name : Names, missing : XpathMarkers \cup RegexMarkers \cup {"nothing"}]

\* search_string (lines 39-44): no match raises ValueError
search_string(page, pattern) == IF page.missing = pattern THEN "ValueError" ELSE "match"

\* parse_metadata (lines 171-216): the error it ends with, "none" when the
\* item is yielded
ParseOutcome(page) ==
    IF page.missing \in XpathMarkers THEN "IndexError"
    ELSE IF search_string(page, "MM/DD/YYYY") = "ValueError" THEN "ValueError"
    ELSE IF search_string(page, "Vertical: <label>") = "ValueError" THEN "ValueError"
    ELSE "none"

\* One metadata page through the spider and the pipeline: parse_metadata,
\* then, for a yielded item, the downloads (which leave the extent file on
\* disk or not) and item_completed.
parse_metadata(page, payload, extent_exists, t) ==
    IF ParseOutcome(page) # "none"
    THEN /\ calls < MaxCalls
         /\ calls' = calls + 1
         /\ last' = [op |-> "parse_metadata", page |-> page, before |-> dataset,
                     error |-> ParseOutcome(page)]
         /\ UNCHANGED <<clock, dataset, dem, files, run_pc, run_args, run_st, trace, writers, datum, frame>>
    ELSE item_completed([name |-> page.name, payload |-> payload,
                         extent_exists |-> extent_exists], t)

NextCrawl ==
    \/ \E item \in Items, t \in Now : item_completed(item, t)
    \/ \E page \in Pages, payload \in Payloads, extent_exists \in BOOLEAN, t \in Now :
          parse_metadata(page, payload, extent_exists, t)

SpecCrawl == InitCrawl /\ [][NextCrawl]_vars

CatchmentIds == 1..MaxCatch
DataDirs == {"/data", "/data2"}   \* values of DATA_DIR/DEM_DIR a run can be given
OutKinds == {"_raw_dem.nc", ".nc", "_raw_extents.geojson"}

\* lines 157-168: <local_cache>/<subfolder>/<index><kind>
PathOf(data_dir, index, kind) == <<data_dir, index, kind>>

\* What single_process hands to store_hydro_to_db: None, or the completed
\* instructions, of which the call reads data_paths only.
Instructions == [is_none : {FALSE}, data_dir : DataDirs, index : CatchmentIds]
NoInstructions == [is_none |-> TRUE, data_dir |-> "", index |-> 0]

\* SELECT * FROM dem WHERE catch_id = '<index>'
SelectByCatch(table, index) == SelectSeq(table, LAMBDA r : r.catch_id = index)

\* lines 177-205: UPDATE the rows of the catch_id, or INSERT one
DemInsert(table, instr, t) ==
    Append(table,
           [catch_id |-> instr.index,
            raw_dem_path |-> PathOf(instr.data_dir, instr.index, "_raw_dem.nc"),
            hydro_dem_path |-> PathOf(instr.data_dir, instr.index, ".nc"),
            extent_path |-> PathOf(instr.data_dir, instr.index, "_raw_extents.geojson"),
            created_at |-> t, updated_at |-> t])
DemUpdate(table, instr, t) ==
    [i \in 1..Len(table) |->
        IF table[i].catch_id = instr.index
        THEN [table[i] EXCEPT
                !.raw_dem_path = PathOf(instr.data_dir, instr.index, "_raw_dem.nc"),
                !.hydro_dem_path = PathOf(instr.data_dir, instr.index, ".nc"),
                !.extent_path = PathOf(instr.data_dir, instr.index, "_raw_extents.geojson"),
                !.updated_at = t]
        ELSE table[i]]
DemUpsertAlwaysInsert(table, instr, t) == DemInsert(table, instr, t)
DemUpsert(table, instr, t) ==
    IF SelectByCatch(table, instr.index) # <<>>
    THEN DemUpdate(table, instr, t)
    ELSE DemInsert(table, instr, t)

\* lines 169-174: the three assertions on the output files
OutputsExistLax(disk, instr) ==
    /\ PathOf(instr.data_dir, instr.index, "_raw_dem.nc") \in disk
    /\ PathOf(instr.data_dir, instr.index, ".nc") \in disk
OutputsExist(disk, instr) ==
    \A k \in OutKinds : PathOf(instr.data_dir, instr.index, k) \in disk

\* store_hydro_to_db as a function: how the call ends and the table it leaves
StoreOutcome(table, instr, disk, t) ==
    IF instr.is_none
    THEN [error |-> "TypeError", dem |-> table]          \* line 156: len(None)
    ELSE IF ~OutputsExist(disk, instr)
    THEN [error |-> "AssertionError", dem |-> table]     \* lines 172-174
    ELSE [error |-> "none", dem |-> DemUpsert(table, instr, t)]

\* store_hydro_to_db called on its own
store_hydro_to_db(instr, t) ==
    LET out == StoreOutcome(dem, instr, files, t)
    IN  /\ calls < MaxCalls
        /\ calls' = calls + 1
        /\ clock' = t
        /\ dem' = out.dem
        /\ last' = [op |-> "store_hydro_to_db", instr |-> instr, t |-> t,
                    before |-> dem, error |-> out.error]
        /\ trace' = IF out.error = "none" THEN Append(trace, <<"dem", instr.index>>)
                    ELSE trace
        /\ UNCHANGED <<dataset, files, run_pc, run_args, run_st, writers, datum, frame>>

\* every output of every catchment under every data dir
AllOutputs == {PathOf(d, i, k) : d \in DataDirs, i \in CatchmentIds, k \in OutKinds}

\* The disk when the calls are made: the engine has run for every catchment
\* under every data dir, and for one catchment some of the outputs of the
\* run under "/data2" may be missing.
InitStore ==
    /\ clock = 0
    /\ dataset = <<>>
    /\ dem = <<>>
    /\ calls = 0
    /\ last = NoCall
    /\ \E i \in CatchmentIds, missing \in SUBSET OutKinds :
          files = AllOutputs \ {PathOf("/data2", i, k) : k \in missing}
    /\ run_pc = "idle"
    /\ run_args = NoCall
    /\ run_st = NoCall
    /\ trace = <<>>
    /\ writers = <<>>
    /\ datum = NoCall
    /\ frame = NoCall

NextStore == \E instr \in Instructions \cup {NoInstructions}, t \in Now :
                store_hydro_to_db(instr, t)

SpecStore == InitStore /\ [][NextStore]_vars

\* C4: after sequential store_hydro_to_db calls the Dem table has exactly one
\* row per stored catch_id (and none for any other); a repeated call leaves
\* one row with the new paths and updated_at and the first created_at.
C4_OneRowPerCatchId ==
    /\ \A i \in CatchmentIds :
         Len(SelectByCatch(dem, i)) = IF <<"dem", i>> \in Range(trace) THEN 1 ELSE 0
    /\ (last.op = "store_hydro_to_db" /\ last.error = "none"
        /\ SelectByCatch(last.before, last.instr.index) # <<>>)
       => LET old == SelectByCatch(last.before, last.instr.index)[1]
              d == last.instr.data_dir
              i == last.instr.index
          IN  SelectByCatch(dem, i) =
                << [catch_id |-> i,
                    raw_dem_path |-> PathOf(d, i, "_raw_dem.nc"),
                    hydro_dem_path |-> PathOf(d, i, ".nc"),
                    extent_path |-> PathOf(d, i, "_raw_extents.geojson"),
                    created_at |-> old.created_at, updated_at |-> last.t] >>

\* a second call for a stored catch_id, with other paths, at a later time
C4_Witness ==
    /\ last.op = "store_hydro_to_db" /\ last.error = "none"
    /\ \E i \in 1..Len(last.before) :
         /\ last.before[i].catch_id = last.instr.index
         /\ last.before[i].raw_dem_path[1] # last.instr.data_dir
         /\ last.before[i].created_at < last.t
    /\ Len(dem) >= 2

\* C9: a call with any of the three output files absent ends in an
\* assertion error and leaves the Dem table as it was.
C9_MissingFileAsserts ==
    (last.op = "store_hydro_to_db" /\ ~last.instr.is_none
     /\ \E k \in OutKinds : PathOf(last.instr.data_dir, last.instr.index, k) \notin files)
    => (last.error = "AssertionError" /\ dem = last.before)

\* the extent file alone is absent and the catch_id already has a row
C9_Witness ==
    /\ last.op = "store_hydro_to_db" /\ ~last.instr.is_none
    /\ PathOf(last.instr.data_dir, last.instr.index, "_raw_extents.geojson") \notin files
    /\ PathOf(last.instr.data_dir, last.instr.index, "_raw_dem.nc") \in files
    /\ PathOf(last.instr.data_dir, last.instr.index, ".nc") \in files
    /\ SelectByCatch(last.before, last.instr.index) # <<>>
    /\ last.error = "AssertionError"

\* ------------------------------------------------------ process.py: run
\* The pre-populated, read-only tables.  Catchment holds 1..MaxCatch; sdc
\* holds MaxCatch (a small catchment, in both tables), MaxCatch+1 (split
\* into two subordinates) and MaxCatch+2 (no subordinate registered).
SdcIds == MaxCatch..(MaxCatch + 2)
ReqIds == (-1)..(MaxCatch + 2)      \* -1 and 0 are in neither table

\* get_split_catchment_by_id(engine, i, sub=True): the subordinate ids
get_split_catchment_by_id(i) == IF i = MaxCatch + 1 THEN <<MaxCatch, 1>> ELSE <<>>

\* get_id_under_area(engine, SDC, area): sdc ids whose area is under the
\* limit, the area of sdc row s being s
get_id_under_area(area) ==
    LET under == {s \in SdcIds : s < area}
    IN  [k \in 1..Cardinality(under) |-> MaxCatch + k - 1]

\* run's catch_id argument: None, one id, or a list of ids
CatchArgs ==
    {[kind |-> "none", val |-> <<>>]}
    \cup {[kind |-> "int", val |-> <<i>>] : i \in ReqIds}
    \cup {[kind |-> "list", val |-> s] : s \in SeqsUpTo(ReqIds, MaxReq)}

Modes == {"api", "local", "other"}
\* output.grid_params.resolution of the base instructions: absent, 0, an
\* integer, a non-integer number
Resolutions == {"None", "0", "30", "7.5"}
ResolutionTruthy(r) == r \notin {"None", "0"}
ResolutionIsInt(r) == r \in {"0", "30"}

\* run's arguments and what it reads from the environment before the loop:
\* the resolution of the base instructions file, and whether that file has
\* a dataset_mapping section
RunArgs == [catch_id : CatchArgs, area : {None, MaxCatch + 2}, mode : Modes,
            resolution : Resolutions, has_mapping : BOOLEAN]

\* lines 245-257: what one requested id adds to new_id
ContributionNoSplit(i) == IF i \in CatchmentIds THEN <<i>> ELSE <<>>
Contribution(i) ==
    IF i \in CatchmentIds THEN <<i>>
    ELSE IF i \in SdcIds /\ i \notin CatchmentIds THEN get_split_catchment_by_id(i)
    ELSE <<>>

\* the requested ids a warning is logged for (lines 253-257)
Warns(i) == Contribution(i) = <<>>

RECURSIVE NewIds(_)
NewIds(req) == IF req = <<>> THEN <<>> ELSE Contribution(Head(req)) \o NewIds(Tail(req))

\* lines 236-268: the selection.  catch_id is the list the loop runs over.
SelectionAreaFirst(args) ==
    IF args.area # None
    THEN [error |-> "none", catch_id |-> get_id_under_area(args.area),
          area_called |-> TRUE, warned |-> <<>>]
    ELSE [error |-> "none", catch_id |-> NewIds(args.catch_id.val),
          area_called |-> FALSE,
          warned |-> SelectSeq(args.catch_id.val, Warns)]
Selection(args) ==
    IF args.catch_id.kind # "none"
    THEN [error |-> "none", catch_id |-> NewIds(args.catch_id.val),
          area_called |-> FALSE,
          warned |-> SelectSeq(args.catch_id.val, Warns)]
    ELSE IF args.area # None
    THEN [error |-> "none", catch_id |-> get_id_under_area(args.area),
          area_called |-> TRUE, warned |-> <<>>]
    ELSE \* line 263: None < 0
         [error |-> "TypeError", catch_id |-> <<>>, area_called |-> FALSE,
          warned |-> <<>>]

\* map_dataset_name_with_id (utils.py 210-221) on the base instructions file:
\* a file without a dataset_mapping section makes line 218 raise
MappingOutcome(has_mapping) == IF has_mapping THEN "none" ELSE "KeyError"

\* run, lines 225-288: up to the start of the loop.  The request is
\* overwritten by the resolved list (line 259); `last` keeps the call.
run(args) ==
    /\ run_pc = "idle"
    /\ LET sel == Selection(args)
           err == IF MappingOutcome(args.has_mapping) # "none"
                  THEN MappingOutcome(args.has_mapping) ELSE sel.error
       IN  /\ run_pc' = IF err # "none" THEN "aborted" ELSE "loop"
           /\ run_args' = [mode |-> args.mode, resolution |-> args.resolution]
           /\ run_st' = [catch_id |-> IF err # "none" THEN <<>> ELSE sel.catch_id,
                         k |-> 1, failed |-> <<>>, runtime |-> 0, error |-> err]
           /\ last' = [op |-> "run", args |-> args, error |-> err,
                       area_called |-> err = "none" /\ sel.area_called,
                       warned |-> IF err # "none" THEN <<>> ELSE sel.warned]
    /\ UNCHANGED <<clock, dataset, dem, calls, files, trace, writers, datum, frame>>

\* What the external engine does when gen_dem runs it: does the raw pass
\* return, does the conditioning pass return, are all outputs on disk after
\* a full run (the raw extent is the one left out otherwise).
EngineRuns == {r \in [raw_ok : BOOLEAN, hydro_ok : BOOLEAN, complete : BOOLEAN] :
                 r.complete = r.hydro_ok \/ (r.hydro_ok /\ ~r.complete)}
EngineNotRun == [raw_ok |-> FALSE, hydro_ok |-> FALSE, complete |-> FALSE]

\* What one pass of the loop meets outside the program: whether the
\* catchment's boundary intersects the buffered lidar extent (line 292),
\* whether a lookup of gen_instructions raises (a variable of the
\* environment, the database), what the Dataset, Tile and Lidar tables hold
\* for the catchment (no dataset, datasets without tile or file, datasets
\* with files), and what the engine does.  Parts that are never consulted
\* are fixed, so that every situation is listed once.
Lidars == {"none", "no_tiles", "ok"}
Situations ==
    {s \in [intersects : BOOLEAN, gi_fail : BOOLEAN, lidar : Lidars, eng : EngineRuns] :
        /\ ~s.intersects => ~s.gi_fail
        /\ (~s.intersects \/ s.gi_fail) => s.lidar = "none"
        /\ s.lidar = "none" => s.eng = EngineNotRun}

RunDataDir == "/data"   \* the DATA_DIR/DEM_DIR of the run

\* gen_instructions, lines 61-121: "error" when a lookup raises, when
\* retrieve_dataset finds the resolution not an integer (utils.py 255), or
\* when retrieve_lidar finds no tile or file for a dataset (utils.py 288,
\* 292); otherwise the instructions are saved.
gen_instructions(mode, resolution, s) ==
    IF s.gi_fail THEN "error"
    ELSE IF mode \in {"api", "local"} /\ ~ResolutionIsInt(resolution) THEN "error"
    ELSE IF mode = "local" /\ s.lidar = "no_tiles" THEN "error"
    ELSE "saved"

\* gen_dem, lines 124-129: the two passes in order
gen_dem_hydro_always(i, eng) ==
    [ok |-> eng.raw_ok /\ eng.hydro_ok,
     events |-> << <<"raw", i>>, <<"hydro", i>> >>,
     written |-> {PathOf(RunDataDir, i, ".nc")}]
gen_dem(i, eng) ==
    IF ~eng.raw_ok
    THEN [ok |-> FALSE, events |-> << <<"raw", i>> >>, written |-> {}]
    ELSE LET rawfiles == {PathOf(RunDataDir, i, "_raw_dem.nc")}
                         \cup IF eng.complete
                              THEN {PathOf(RunDataDir, i, "_raw_extents.geojson")}
                              ELSE {}
         IN  IF ~eng.hydro_ok
             THEN [ok |-> FALSE, events |-> << <<"raw", i>>, <<"hydro", i>> >>,
                   written |-> rawfiles]
             ELSE [ok |-> TRUE, events |-> << <<"raw", i>>, <<"hydro", i>> >>,
                   written |-> rawfiles \cup {PathOf(RunDataDir, i, ".nc")}]

\* single_process, lines 132-151.  result: "raise", "None" or "instructions"
single_process(i, mode, resolution, s) ==
    IF gen_instructions(mode, resolution, s) = "error"
    THEN [result |-> "raise", events |-> <<>>, written |-> {}]
    ELSE LET saved == {PathOf(RunDataDir, i, "instructions.json")}
             ev == << <<"instructions", i>> >>
         IN  IF mode \notin {"api", "local"}
             THEN [result |-> "raise", events |-> ev, written |-> saved]
             ELSE IF s.lidar = "none"
             THEN [result |-> "None", events |-> ev, written |-> saved]
             ELSE LET g == gen_dem(i, s.eng)
                  IN  [result |-> IF g.ok THEN "instructions" ELSE "raise",
                       events |-> ev \o g.events,
                       written |-> saved \cup g.written]

\* lines 297-302: an exception of single_process is caught by the loop
CaughtNever(result) == FALSE
Caught(result) == result = "raise"

\* line 292: the guard of the processing branch
ProcessGuardNoExtent(resolution, s) == ResolutionTruthy(resolution)
ProcessGuard(resolution, s) == ResolutionTruthy(resolution) /\ s.intersects

\* Lines 293-305, the processing branch for catchment i: what the pass
\* leaves on disk and in the Dem table, its steps in order, and how it ends:
\* "next" (on to the next id), "failed" (recorded, on to the next id) or an
\* exception that leaves run.
ProcessCatchment(i, mode, resolution, s, disk0, table, t) ==
    LET sp == single_process(i, mode, resolution, s)
        disk == disk0 \cup {PathOf(RunDataDir, i, ".geojson")} \cup sp.written
        ev == << <<"boundary", i>> >> \o sp.events
    IN  IF sp.result = "raise"
        THEN [ends |-> IF Caught(sp.result) THEN "failed" ELSE "Exception",
              returned |-> sp.result,
              files |-> disk, dem |-> table, events |-> ev, timed |-> FALSE]
        ELSE LET instr == IF sp.result = "None" THEN NoInstructions
                          ELSE [is_none |-> FALSE, data_dir |-> RunDataDir, index |-> i]
                 out == StoreOutcome(table, instr, disk, t)
             IN  [ends |-> IF out.error = "none" THEN "next" ELSE out.error,
                  returned |-> sp.result,
                  files |-> disk, dem |-> out.dem,
                  events |-> IF out.error = "none" THEN Append(ev, <<"dem", i>>) ELSE ev,
                  timed |-> TRUE]

\* One pass of the loop body, lines 289-309, for i = catch_id[k].
run_catchment(s, t) ==
    /\ run_pc = "loop"
    /\ run_st.k <= Len(run_st.catch_id)
    /\ LET i == run_st.catch_id[run_st.k]
       IN  /\ s.intersects => i \in CatchmentIds   \* no Catchment row, no boundary
           /\ IF ProcessGuard(run_args.resolution, s)
              THEN \E p \in {ProcessCatchment(i, run_args.mode, run_args.resolution,
                                                s, files, dem, t)} :
                   LET ok == p.ends \in {"next", "failed"}
                   IN  /\ files' = p.files
                       /\ dem' = p.dem
                       /\ trace' = p.events
                       /\ clock' = IF p.ends = "next" THEN t ELSE clock
                       /\ run_pc' = IF ok THEN "loop" ELSE "aborted"
                       /\ run_st' = [run_st EXCEPT
                             !.k = IF ok THEN @ + 1 ELSE @,
                             !.failed = IF p.ends = "failed" THEN Append(@, i) ELSE @,
                             !.runtime = IF p.timed THEN @ + 1 ELSE @,
                             !.error = IF ok THEN @ ELSE p.ends]
                       /\ last' = [op |-> "run_catchment", i |-> i, s |-> s,
                                   returned |-> p.returned, ends |-> p.ends]
              ELSE \* lines 306-309: a warning or an info line, nothing else
                   /\ run_st' = [run_st EXCEPT !.k = @ + 1]
                   /\ run_pc' = "loop"
                   /\ trace' = << <<"skip", i>> >>
                   /\ last' = [op |-> "run_catchment", i |-> i, s |-> s,
                               returned |-> "not called", ends |-> "skip"]
                   /\ UNCHANGED <<files, dem, clock>>
    /\ UNCHANGED <<dataset, calls, run_args, writers, datum, frame>>

\* lines 311-325: the loop is over, the summary is logged
run_end ==
    /\ run_pc = "loop"
    /\ run_st.k > Len(run_st.catch_id)
    /\ run_pc' = "done"
    /\ UNCHANGED <<clock, dataset, dem, calls, last, files, run_args, run_st, trace, writers, datum, frame>>

Init ==
    /\ clock = 0
    /\ dataset = <<>>
    /\ dem = <<>>
    /\ calls = 0
    /\ last = NoCall
    /\ files = {}
    /\ run_pc = "idle"
    /\ run_args = NoCall
    /\ run_st = NoCall
    /\ trace = <<>>
    /\ writers = <<>>
    /\ datum = NoCall
    /\ frame = NoCall

Next ==
    \/ run_pc = "idle" /\ \E args \in RunArgs : run(args)
    \/ run_pc = "loop" /\ \E s \in Situations : run_catchment(s, Later)
    \/ run_end

Spec == Init /\ [][Next]_vars

\* ------------------------------------------------- claims on process.run
\* the state right after run's selection, for a call that got that far
Selected == last.op = "run" /\ last.error = "none"

\* the rows of the read-only tables, as the claims speak of them
InCatchment(i) == i \in 1..MaxCatch
OnlyInSdc(i) == i \in SdcIds /\ ~InCatchment(i)
RECURSIVE Concat(_)
Concat(ss) == IF ss = <<>> THEN <<>> ELSE Head(ss) \o Concat(Tail(ss))

\* C1: an exception raised while one catchment is processed, in
\* single_process or in store_hydro_to_db, is caught: the id is recorded in
\* the failure list and run goes on with the next id.  (Stated for passes
\* in which single_process returned instructions or raised.)
C1_ExceptionsCaught ==
    (last.op = "run_catchment" /\ last.returned \in {"raise", "instructions"}
     /\ last.ends \notin {"next", "skip"})
    => /\ run_pc # "aborted"
       /\ run_st.failed # <<>>
       /\ run_st.failed[Len(run_st.failed)] = last.i

\* C2: a catchment whose lidar list is empty is skipped, not failed: no
\* engine pass, no Dem row, no error, and the loop goes on.
C2_EmptyLidarSkipped ==
    (last.op = "run_catchment" /\ last.returned = "None")
    => /\ run_pc # "aborted"
       /\ run_st.error = "none"
       /\ <<"raw", last.i>> \notin Range(trace)
       /\ <<"dem", last.i>> \notin Range(trace)

\* C5: with an explicit catch_id and an area bound, the ids come from the
\* catch_id argument alone and get_id_under_area is not called; it is
\* called only when catch_id is absent.
C5_ExplicitIdsFirst ==
    Selected =>
       /\ last.area_called => last.args.catch_id.kind = "none"
       /\ (last.args.catch_id.kind # "none" /\ last.args.area # None)
          => /\ ~last.area_called
             /\ Range(run_st.catch_id) \subseteq
                  UNION {{i} \cup Range(get_split_catchment_by_id(i)) :
                            i \in Range(last.args.catch_id.val)}
             /\ \A i \in Range(last.args.catch_id.val) :
                  InCatchment(i) => i \in Range(run_st.catch_id)

\* both given, and the two would select different ids
C5_Witness ==
    /\ Selected
    /\ last.args.catch_id.kind = "list" /\ last.args.area # None
    /\ run_st.catch_id # <<>>
    /\ run_st.catch_id # get_id_under_area(last.args.area)

\* C6: a negative catch_id and no area bound select every catch_id of the
\* Catchment table, in sorted order.
C6_NegativeSelectsAll ==
    (last.op = "run" /\ last.args.has_mapping /\ last.args.catch_id.kind = "int"
     /\ last.args.catch_id.val[1] < 0 /\ last.args.area = None)
    => /\ last.error = "none"
       /\ run_st.catch_id = [k \in 1..MaxCatch |-> k]

\* C7: the resolved list is built per requested id, in request order: an id
\* of the Catchment table gives itself, an id only in sdc gives its
\* subordinates, any other id gives nothing; a warning is logged for every
\* id that gives nothing.
C7_ResolvedPerRequest ==
    (Selected /\ last.args.catch_id.kind # "none")
    => LET req == last.args.catch_id.val
           gives == [k \in 1..Len(req) |->
                       IF InCatchment(req[k]) THEN <<req[k]>>
                       ELSE IF OnlyInSdc(req[k]) THEN get_split_catchment_by_id(req[k])
                       ELSE <<>>]
       IN  /\ run_st.catch_id = Concat(gives)
           /\ last.warned = SelectSeq(req, LAMBDA i :
                  ~InCatchment(i) /\ (OnlyInSdc(i) => get_split_catchment_by_id(i) = <<>>))

\* a split catchment with subordinates, then an id of neither table
C7_Witness ==
    /\ Selected /\ last.args.catch_id.kind = "list"
    /\ Len(last.args.catch_id.val) = 2
    /\ OnlyInSdc(last.args.catch_id.val[1])
    /\ Len(get_split_catchment_by_id(last.args.catch_id.val[1])) = 2
    /\ last.args.catch_id.val[2] = 0
    /\ Len(run_st.catch_id) = 2

\* C8: a catchment is processed only if the resolution is defined and its
\* boundary intersects the lidar extent; otherwise the pass writes nothing
\* (no file, no engine pass, no Dem row), records no failure and run goes on
\* to the next id; a run without a resolution ends having written nothing.
C8_SkipStep ==
    (run_pc = "loop" /\ run_pc' # "done")
    => /\ last'.ends # "skip"
          => (run_args.resolution # "None" /\ last'.s.intersects
              /\ PathOf(RunDataDir, last'.i, ".geojson") \in files')
       /\ (run_args.resolution = "None" \/ ~last'.s.intersects)
          => /\ last'.ends = "skip"
             /\ files' = files /\ dem' = dem
             /\ \A e \in Range(trace') : e[1] = "skip"
             /\ run_pc' = "loop"
             /\ run_st' = [run_st EXCEPT !.k = @ + 1]
C8_SkippedWritesNothing ==
    /\ [][C8_SkipStep]_vars
    /\ [](run_pc \in {"loop", "done"} /\ run_args.resolution = "None"
          => files = {} /\ dem = <<>> /\ run_st.failed = <<>>)

\* a catchment outside the extent is skipped after another was processed
C8_Witness ==
    /\ last.op = "run_catchment" /\ last.ends = "skip"
    /\ run_args.resolution = "30" /\ ~last.s.intersects
    /\ dem # <<>>
    /\ PathOf(RunDataDir, last.i, ".geojson") \notin files
    /\ run_pc = "done"

\* ------------------------------------------------ concurrent upserts
\* Several processes upserting at once (spec 5: several orchestrator
\* processes against one database; the same holds for the pipeline).  No
\* transaction spans two statements, so every statement sent to the
\* database is a step of its own: store_hydro_to_db is SELECT, then UPDATE
\* or INSERT; item_completed is SELECT, then get_max_value or delete_table,
\* then to_postgis.  Each writer makes one call; all calls start within the
\* same second.
StoreWriters == {"s1", "s2"}
ItemWriters == {"i1", "i2", "i3"}
Idle == [pc |-> "idle"]

\* lines 179-205 of process.py with the result of the SELECT of line 178
StoreWriteRecheck(table, instr, found, t) == DemUpsert(table, instr, t)
StoreWrite(table, instr, found, t) ==
    IF found # <<>> THEN DemUpdate(table, instr, t) ELSE DemInsert(table, instr, t)

\* store_hydro_to_db up to the SELECT (lines 154-178)
store_select(w, instr) ==
    /\ writers[w].pc = "idle"
    /\ OutputsExist(files, instr)
    /\ writers' = [writers EXCEPT ![w] =
                      [pc |-> "write", instr |-> instr, t |-> clock,
                       found |-> SelectByCatch(dem, instr.index)]]
    /\ UNCHANGED <<clock, dataset, dem, calls, last, files, run_pc, run_args, run_st, trace, datum, frame>>

\* the UPDATE or INSERT (lines 179-205)
store_write(w) ==
    /\ writers[w].pc = "write"
    /\ dem' = StoreWrite(dem, writers[w].instr, writers[w].found, writers[w].t)
    /\ writers' = [writers EXCEPT ![w].pc = "done"]
    /\ UNCHANGED <<clock, dataset, calls, last, files, run_pc, run_args, run_st, trace, datum, frame>>

\* item_completed up to the SELECT (datasets.py 85-107)
item_select(w, item) ==
    /\ writers[w].pc = "idle"
    /\ item.extent_exists
    /\ writers' = [writers EXCEPT ![w] =
                      [pc |-> "branch", item |-> item, t |-> clock,
                       found |-> SelectByName(dataset, item.name), _id |-> None]]
    /\ UNCHANGED <<clock, dataset, dem, calls, last, files, run_pc, run_args, run_st, trace, datum, frame>>

\* get_max_value or delete_table (lines 108-115)
item_branch(w) ==
    /\ writers[w].pc = "branch"
    /\ IF writers[w].found = <<>>
       THEN /\ writers' = [writers EXCEPT ![w].pc = "insert",
                                          ![w]._id = get_max_value(dataset)]
            /\ dataset' = dataset
       ELSE /\ writers' = [writers EXCEPT ![w].pc = "insert"]
            /\ dataset' = delete_table(dataset, writers[w].item.name)
    /\ UNCHANGED <<clock, dem, calls, last, files, run_pc, run_args, run_st, trace, datum, frame>>

\* to_postgis(..., if_exists="append") (line 133)
item_insert(w) ==
    /\ writers[w].pc = "insert"
    /\ dataset' = Append(dataset, NewRow(writers[w].item, writers[w].found,
                                         writers[w]._id, writers[w].t))
    /\ writers' = [writers EXCEPT ![w].pc = "done"]
    /\ UNCHANGED <<clock, dem, calls, last, files, run_pc, run_args, run_st, trace, datum, frame>>

InitConc ==
    /\ clock = 0
    /\ dataset = <<>>
    /\ dem = <<>>
    /\ calls = 0
    /\ last = NoCall
    /\ files = AllOutputs
    /\ run_pc = "idle"
    /\ run_args = NoCall
    /\ run_st = NoCall
    /\ trace = <<>>
    /\ writers = [w \in StoreWriters \cup ItemWriters |-> Idle]
    /\ datum = NoCall
    /\ frame = NoCall

NextConc ==
    \/ \E w \in StoreWriters, i \in CatchmentIds :
          store_select(w, [is_none |-> FALSE, data_dir |-> RunDataDir, index |-> i])
    \/ \E w \in StoreWriters : store_write(w)
    \/ \E w \in ItemWriters, n \in Names :
          item_select(w, [name |-> n, payload |-> 1, extent_exists |-> TRUE])
    \/ \E w \in ItemWriters : item_branch(w)
    \/ \E w \in ItemWriters : item_insert(w)

SpecConc == InitConc /\ [][NextConc]_vars

\* a finished call whose SELECT found no row for its key
InsertedBlind(w) == writers[w].pc = "done" /\ writers[w].found = <<>>
\* some call has run delete_table for the name
HasDeleted(n) ==
    \E w \in ItemWriters :
        /\ writers[w].pc \in {"insert", "done"}
        /\ writers[w].found # <<>>
        /\ writers[w].item.name = n
\* two rows of the Dataset table with different names and one id
SharedId ==
    \E p, q \in 1..Len(dataset) :
        dataset[p].name # dataset[q].name /\ dataset[p].id = dataset[q].id

\* C10: the upserts are not atomic.  Two concurrent store_hydro_to_db calls
\* that both read "no row for this catch_id" both insert, leaving two rows
\* for it; two concurrent item_completed calls that both read "no row for
\* this name" both insert, leaving two rows for it; and two item_completed
\* calls for different new names that read the same max(id) both insert a
\* row with the same id.
C10_ConcurrentUpsertsDuplicate ==
    /\ \A w1, w2 \in StoreWriters :
          (/\ w1 # w2
           /\ InsertedBlind(w1) /\ InsertedBlind(w2)
           /\ writers[w1].instr.index = writers[w2].instr.index)
          => Len(SelectByCatch(dem, writers[w1].instr.index)) >= 2
    /\ \A w1, w2 \in ItemWriters :
          (/\ w1 # w2
           /\ InsertedBlind(w1) /\ InsertedBlind(w2)
           /\ writers[w1].item.name = writers[w2].item.name
           /\ ~HasDeleted(writers[w1].item.name))
          => Len(SelectByName(dataset, writers[w1].item.name)) >= 2
    /\ \A w1, w2 \in ItemWriters :
          (/\ InsertedBlind(w1) /\ InsertedBlind(w2)
           /\ writers[w1].item.name # writers[w2].item.name
           /\ writers[w1]._id = writers[w2]._id
           /\ ~HasDeleted(writers[w1].item.name)
           /\ ~HasDeleted(writers[w2].item.name))
          => SharedId

\* both races have happened: two rows for one catch_id, two rows for one
\* name, and one id under two names
C10_Witness ==
    /\ \A w \in StoreWriters \cup ItemWriters : InsertedBlind(w)
    /\ writers["s1"].instr.index = writers["s2"].instr.index
    /\ Len(SelectByCatch(dem, writers["s1"].instr.index)) = 2
    /\ writers["i1"].item.name = writers["i2"].item.name
    /\ writers["i1"].item.name # writers["i3"].item.name
    /\ Len(SelectByName(dataset, writers["i1"].item.name)) = 2
    /\ SharedId

\* ------------------------------------ scripts/datum_lvd_nzvd2016.py
\* Paths are sequences of components.  A file name is a sequence of tokens,
\* the stem's pieces followed by the suffix ("x.las.laz" is
\* <<"x", ".las", ".laz">>), so that Path.stem, str.endswith and str.replace
\* act as they do on the string.
MaxFiles == 3        \* files under the source directory when the run starts

path_list ==
    << <<".", "datastorage", "lidar", "NZ10_WHope">>,
       <<".", "datastorage", "lidar", "NZ10_CAlpine">>,
       <<".", "datastorage", "lidar", "NZ10_Wellington">>,
       <<".", "datastorage", "lidar_waikato", "LiDAR_2014_Hipaua_Thermal_Area",
         "Moturiki1953", "Processed_Point_Cloud">>,
       <<".", "datastorage", "lidar_waikato", "LiDAR_2012_2013_Coromandel",
         "Auckland_1946", "Processed_Point_Cloud">>,
       <<".", "datastorage", "lidar_waikato", "LiDAR_2010_2011", "Northern_Waikato",
         "Processed_Point_Cloud", "Moturiki_1953">>,
       <<".", "datastorage", "lidar_waikato", "LiDAR_2010_2011", "Raglan_Harbour",
         "Processed_Point_Cloud", "Moturiki_1953">>,
       <<".", "datastorage", "lidar_waikato", "LiDAR_2007_2008", "Area_1", "XYZI", "ground">>,
       <<".", "datastorage", "lidar_waikato", "LiDAR_2007_2008", "Area_1_Option_B",
         "XYZI", "ground">>,
       <<".", "datastorage", "lidar_waikato", "LiDAR_2007_2008", "Area_2", "XYZI", "ground">>,
       <<".", "datastorage", "lidar_waikato", "LiDAR_2007_2008", "Area_3", "XYZI", "ground">>,
       <<".", "datastorage", "lidar_waikato", "LiDAR_2007_2008", "Area_4", "XYZI", "ground">>,
       <<".", "datastorage", "lidar_waikato", "LiDAR_2007_2008", "Area_5", "XYZI", "ground">>,
       <<".", "datastorage", "lidar_waikato", "LiDAR_2007_2008", "Area_6", "XYZI", "ground">>,
       <<".", "datastorage", "lidar_waikato", "LiDAR_2006_Lake_Taupo", "Moturiki_1953",
         "ground">> >>

\* 'marker' in str(src_dir): in the paths of path_list every marker tested
\* occurs as a whole component or not at all
Contains(path, marker) == \E i \in 1..Len(path) : path[i] = marker

SpecialMarkers == {"NZ10_WHope", "NZ10_CAlpine", "NZ10_Wellington"}

\* the condition of lines 39, 67 and 119
IsSpecialAny(src_dir) == TRUE
IsSpecial(src_dir) ==
    \/ Contains(src_dir, "NZ10_WHope")
    \/ Contains(src_dir, "NZ10_CAlpine")
    \/ Contains(src_dir, "NZ10_Wellington")

\* lines 47-58
gtxfileMoturiki(src_dir) == "moturiki_1953.gtx"
gtxfile(src_dir) ==
    IF Contains(src_dir, "NZ10_WHope") \/ Contains(src_dir, "NZ10_CAlpine")
    THEN "lyttht1937-nzvd2016.gtx"
    ELSE IF Contains(src_dir, "NZ10_Wellington") THEN "wellht1953-nzvd2016.gtx"
    ELSE IF Contains(src_dir, "Auckland_1946") THEN "auckht1946-nzvd2016.gtx"
    ELSE "moturiki_1953.gtx"

\* pathlib: Path.parent and the / operator
Parent(path) == SubSeq(path, 1, Len(path) - 1)
IsPrefix(p, q) == Len(p) <= Len(q) /\ SubSeq(q, 1, Len(p)) = p

\* lines 67-70
dest_dir(src_dir) ==
    IF IsSpecial(src_dir)
    THEN Append(src_dir, "NZVD2016")
    ELSE Append(Parent(Parent(src_dir)), "NZVD2016")

\* ---- file names
Suffix(name) == name[Len(name)]
Stem(name) == SubSeq(name, 1, Len(name) - 1)

\* str.lower() of a token
Lower(tok) ==
    CASE tok = ".LAS" -> ".las"
      [] tok = ".LAZ" -> ".laz"
      [] tok = ".XYZ" -> ".xyz"
      [] tok = ".XYZI" -> ".xyzi"
      [] tok \in {"True", "TRUE", "tRuE"} -> "true"
      [] tok \in {"False", "FALSE", "fAlSe"} -> "false"
      [] tok = "T" -> "t"
      [] tok = "F" -> "f"
      [] tok = "Yes" -> "yes"
      [] OTHER -> tok

\* tok.replace(old, '.laz'): old occurs in tok when it is tok, or a proper
\* part of it (".xyz" in ".xyzi", ".XYZ" in ".XYZI")
ReplaceTok(tok, old) ==
    CASE tok = old -> ".laz"
      [] tok = ".xyzi" /\ old = ".xyz" -> ".lazi"
      [] tok = ".XYZI" /\ old = ".XYZ" -> ".lazI"
      [] OTHER -> tok

\* file.replace(old, '.laz') when old occurs in file (every occurrence)
Replace(name, old) == [i \in 1..Len(name) |-> ReplaceTok(name[i], old)]

\* file.lower().endswith(ext)
EndsWithLower(name, ext) == Lower(Suffix(name)) = ext

\* ---- the directory tree: a set of files [dir, name, data]; data says
\* what the file holds: <<"orig", dir, name>> the point cloud first stored
\* under that path, <<"nzvd", dir, name>> the transformation of the file
\* read from that path, LogData the command log
LogData == <<"log", <<>>, <<>>>>
LogName == <<"datum", ".log">>
Orig(dir, name) == [dir |-> dir, name |-> name, data |-> <<"orig", dir, name>>]
At(fs, dir, name) == {f \in fs : f.dir = dir /\ f.name = name}

\* writing or renaming onto an existing path replaces the file (POSIX)
Write(fs, dir, name, data) ==
    (fs \ At(fs, dir, name)) \cup {[dir |-> dir, name |-> name, data |-> data]}

\* src_dir.glob('*' + suffix): the files directly in dir, suffix as written
Glob(fs, dir, suffix) == {f \in fs : f.dir = dir /\ Suffix(f.name) = suffix}

\* for f in files: f.rename(dir / (f.stem + suffix)); the stems of files of
\* one directory with one suffix differ, so the order does not matter
RenameAll(fs, renamed, suffix) ==
    LET target(f) == Stem(f.name) \o <<suffix>>
        gone == renamed \cup UNION {At(fs, f.dir, target(f)) : f \in renamed}
    IN  (fs \ gone) \cup {[dir |-> f.dir, name |-> target(f), data |-> f.data] : f \in renamed}

\* lines 79-112: the command built for one walked file, NoCmd when
\* pdal_cmd stays ''.  The second test reads `file` as the first branch
\* left it.
NoCmd == [pipeline |-> ""]
pdal_cmd(f, dest, gtx) ==
    LET las == EndsWithLower(f.name, ".las")
        file1 == IF las THEN Replace(Replace(f.name, ".las"), ".LAS") ELSE f.name
        xyz == EndsWithLower(file1, ".xyz") \/ EndsWithLower(file1, ".xyzi")
        file2 == IF xyz THEN Replace(Replace(Replace(file1, ".XYZI"), ".xyz"), ".XYZ")
                 ELSE file1
    IN  IF xyz
        THEN [pipeline |-> "pipeline_xyz.json", src_dir |-> f.dir, src_file |-> f.name,
              dest_file |-> file2, gtxfile |-> gtx]
        ELSE IF las
        THEN [pipeline |-> "pipeline_las.json", src_dir |-> f.dir, src_file |-> f.name,
              dest_file |-> file2, gtxfile |-> gtx]
        ELSE NoCmd

\* lines 73-112: os.walk(src_dir) visits every file below src_dir
pdal_cmd_list(fs, src_dir, dest, gtx) ==
    {pdal_cmd(f, dest, gtx) : f \in {g \in fs : IsPrefix(src_dir, g.dir)}} \ {NoCmd}

\* the outputs left in dest by the commands of `written` (one per path)
RECURSIVE WriteOutputs(_, _, _)
WriteOutputs(fs, dest, written) ==
    IF written = {} THEN fs
    ELSE LET c == CHOOSE x \in written : TRUE
         IN  WriteOutputs(Write(fs, dest, c.dest_file, <<"nzvd", c.src_dir, c.src_file>>),
                          dest, written \ {c})

\* subprocess.run(..., check=True) under pool.map (line 117): a non-zero
\* exit raises CalledProcessError out of the with block
MapOutcomeUnchecked(failed) == "none"
MapOutcome(failed) == IF failed THEN "CalledProcessError" ELSE "none"

\* lines 119-137 on the tree fs; the result's error is "none" when the
\* script reaches the end
PostProcess(fs, src_dir, dest, cmds) ==
    LET laz_files == Glob(fs, dest, ".laz")
        las_files == Glob(fs, src_dir, ".las")
        moved == (fs \ (laz_files \cup UNION {At(fs, src_dir, f.name) : f \in laz_files}))
                 \cup {[dir |-> src_dir, name |-> f.name, data |-> f.data] : f \in laz_files}
        unlinked == moved \ UNION {At(moved, f.dir, f.name) : f \in las_files}
    IN  IF ~IsSpecial(src_dir)
        THEN [fs |-> Write(fs, src_dir, LogName, LogData), dest_exists |-> TRUE,
              error |-> "none"]
        ELSE IF Cardinality(laz_files) # Cardinality(cmds)
        THEN [fs |-> IF laz_files = {} THEN RenameAll(fs, las_files, ".laz") ELSE fs,
              dest_exists |-> TRUE, error |-> "Exception"]
        ELSE IF \E f \in unlinked : f.dir = dest
        THEN \* dest_dir.rmdir() on a directory that is not empty
             [fs |-> unlinked, dest_exists |-> TRUE, error |-> "OSError"]
        ELSE [fs |-> Write(unlinked, src_dir, LogName, LogData), dest_exists |-> FALSE,
              error |-> "none"]

\* lines 34-114: the index is checked, the inputs of a special directory
\* renamed, the grid and the destination chosen, the destination made and
\* the commands built.  `pipelines` says whether both pipeline files exist.
prepare(pipelines) ==
    /\ datum.pc = "start"
    /\ LET src_dir == datum.src_dir
           fs1 == IF IsSpecial(src_dir)
                  THEN RenameAll(datum.fs, Glob(datum.fs, src_dir, ".laz"), ".las")
                  ELSE datum.fs
           dest == dest_dir(src_dir)
           gtx == gtxfile(src_dir)
       IN  datum' = IF pipelines
                    THEN [datum EXCEPT !.pc = "prepared", !.fs = fs1, !.dest = dest,
                                       !.gtxfile = gtx, !.dest_exists = TRUE,
                                       !.cmds = pdal_cmd_list(fs1, src_dir, dest, gtx)]
                    ELSE [datum EXCEPT !.pc = "failed", !.fs = fs1,
                                       !.error = "AssertionError"]
    /\ UNCHANGED <<clock, dataset, dem, calls, last, files, run_pc, run_args, run_st, trace, writers, frame>>

\* lines 116-117: the commands run in the pool.  `written` are the commands
\* whose output is in dest when pool.map returns or raises (of commands
\* writing one path, one), `failed` says whether some command exited
\* non-zero.
pool_map(written, failed) ==
    /\ datum.pc = "prepared"
    /\ written \subseteq datum.cmds
    /\ \A c1, c2 \in written : c1.dest_file = c2.dest_file => c1 = c2
    /\ failed => datum.cmds # {}
    /\ datum' = [datum EXCEPT
                    !.pc = IF MapOutcome(failed) = "none" THEN "mapped" ELSE "failed",
                    !.fs = WriteOutputs(datum.fs, datum.dest, written),
                    !.failed = failed,
                    !.error = MapOutcome(failed)]
    /\ UNCHANGED <<clock, dataset, dem, calls, last, files, run_pc, run_args, run_st, trace, writers, frame>>

\* lines 119-139
post_process ==
    /\ datum.pc = "mapped"
    /\ LET r == PostProcess(datum.fs, datum.src_dir, datum.dest, datum.cmds)
       IN  datum' = [datum EXCEPT !.pc = IF r.error = "none" THEN "done" ELSE "failed",
                                  !.fs = r.fs, !.dest_exists = r.dest_exists,
                                  !.error = r.error]
    /\ UNCHANGED <<clock, dataset, dem, calls, last, files, run_pc, run_args, run_st, trace, writers, frame>>

\* the files a source directory may hold when the utility starts
InputNames ==
    { <<"a", ".laz">>, <<"b", ".laz">>, <<"x", ".las", ".laz">>, <<"a", ".las">>,
      <<"a", ".LAS">>, <<"a", ".xyz">>, <<"a", ".xyzi">>, <<"n", ".txt">> }
Inputs(src_dir) ==
    {Orig(src_dir, n) : n \in InputNames} \cup {Orig(Append(src_dir, "sub"), <<"a", ".las">>)}

InitDatum ==
    /\ clock = 0
    /\ dataset = <<>>
    /\ dem = <<>>
    /\ calls = 0
    /\ last = NoCall
    /\ files = {}
    /\ run_pc = "idle"
    /\ run_args = NoCall
    /\ run_st = NoCall
    /\ trace = <<>>
    /\ writers = <<>>
    /\ \E i \in 1..Len(path_list) :
          \E fs0 \in {x \in SUBSET Inputs(path_list[i]) : Cardinality(x) <= MaxFiles} :
              datum = [pc |-> "start", src_dir |-> path_list[i], fs0 |-> fs0, fs |-> fs0,
                       dest |-> <<>>, gtxfile |-> "", dest_exists |-> FALSE, cmds |-> {},
                       failed |-> FALSE, error |-> "none"]
    /\ frame = NoCall

NextDatum ==
    \/ \E pipelines \in BOOLEAN : prepare(pipelines)
    \/ datum.pc = "prepared" /\ \E written \in SUBSET datum.cmds, failed \in BOOLEAN :
          pool_map(written, failed)
    \/ post_process

SpecDatum == InitDatum /\ [][NextDatum]_vars

\* ---- claims on the datum utility
SpecialRun == \E m \in SpecialMarkers : Contains(datum.src_dir, m)
\* the inputs a special run renames when it starts
PreRenamed == Glob(datum.fs0, datum.src_dir, ".laz")
\* the tree as the run leaves it for the pool
PreparedTree ==
    IF SpecialRun THEN RenameAll(datum.fs0, PreRenamed, ".las") ELSE datum.fs0
Outputs(dir) == {f \in datum.fs : f.dir = dir /\ f.data[1] = "nzvd"}
LogWritten == At(datum.fs, datum.src_dir, LogName) # {}

\* C11: a special-directory run that ends in failure with no transformed
\* file in the temporary directory - the commands having failed or not -
\* has renamed every pre-renamed input back to its .laz name.
C11_RollbackOnZeroOutputs ==
    (/\ SpecialRun
     /\ datum.pc = "failed"
     /\ datum.error \in {"CalledProcessError", "Exception"}
     /\ Glob(datum.fs, datum.dest, ".laz") = {})
    => \A f \in PreRenamed : f \in datum.fs

\* C12: after a successful special-directory run over top-level .laz
\* inputs only, the source directory holds, under each input's name, the
\* transformed output of that input, datum.log, and nothing else; the
\* temporary directory is gone.
C12_InPlaceResult ==
    (/\ SpecialRun
     /\ datum.pc = "done"
     /\ datum.fs0 = PreRenamed)
    => /\ datum.fs = {[dir |-> f.dir, name |-> f.name,
                       data |-> <<"nzvd", f.dir, Stem(f.name) \o <<".las">> >>] :
                          f \in datum.fs0}
                     \cup {[dir |-> datum.src_dir, name |-> LogName, data |-> LogData]}
       /\ ~datum.dest_exists

\* C13: when a command exits non-zero the run fails and nothing of lines
\* 119-137 happens: the tree outside the destination is as it was handed
\* to the pool, the destination still exists and datum.log is not written.
\* datum.log exists only in a run that ended with every command
\* successful and, in a special directory, one output per command.
C13_FailedCommandAborts ==
    /\ datum.failed
       => /\ datum.pc = "failed"
          /\ datum.error = "CalledProcessError"
          /\ {f \in datum.fs : f.dir # datum.dest} = PreparedTree
          /\ datum.dest_exists
          /\ ~LogWritten
    /\ LogWritten
       => /\ datum.pc = "done"
          /\ ~datum.failed
          /\ SpecialRun => Cardinality(Outputs(datum.src_dir)) = Cardinality(datum.cmds)

C13_Witness ==
    /\ datum.failed
    /\ datum.pc = "failed"
    /\ SpecialRun
    /\ Glob(datum.fs, datum.dest, ".laz") # {}
    /\ Cardinality(datum.cmds) >= 2

\* C14: in a run on a non-special directory every file the source
\* directory held at the start is there throughout, under its name and
\* with its content; every output is in <source>/../../NZVD2016, which is
\* not below the source directory.
C14_NonSpecialInputsUntouched ==
    ~SpecialRun
    => /\ datum.fs0 \subseteq datum.fs
       /\ \A f \in datum.fs :
             f.data[1] = "nzvd" =>
                /\ f.dir = Append(SubSeq(datum.src_dir, 1, Len(datum.src_dir) - 2), "NZVD2016")
                /\ ~IsPrefix(datum.src_dir, f.dir)

C14_Witness ==
    /\ ~SpecialRun
    /\ datum.pc = "done"
    /\ Glob(datum.fs0, datum.src_dir, ".laz") # {}
    /\ Glob(datum.fs0, datum.src_dir, ".las") # {}
    /\ \E f \in datum.fs : f.data[1] = "nzvd"

\* C15: grid and routing follow from the directory path alone: the first
\* two directories of path_list (NZ10_WHope, NZ10_CAlpine) use Lyttelton
\* 1937, the third (NZ10_Wellington) Wellington 1953, the one containing
\* Auckland_1946 (the fifth) Auckland 1946 and every other Moturiki 1953;
\* the three NZ10_* directories use <source>/NZVD2016, the others the
\* NZVD2016 directory two levels above the source.
C15_GridAndRoutingByPath ==
    datum.pc \in {"prepared", "mapped", "done"}
    => LET i == CHOOSE k \in 1..Len(path_list) : path_list[k] = datum.src_dir
           src == datum.src_dir
       IN  /\ datum.gtxfile =
                 IF i \in {1, 2} THEN "lyttht1937-nzvd2016.gtx"
                 ELSE IF i = 3 THEN "wellht1953-nzvd2016.gtx"
                 ELSE IF i = 5 THEN "auckht1946-nzvd2016.gtx"
                 ELSE "moturiki_1953.gtx"
           /\ (i = 5) = Contains(src, "Auckland_1946")
           /\ (i \in {1, 2}) = (Contains(src, "NZ10_WHope") \/ Contains(src, "NZ10_CAlpine"))
           /\ (i = 3) = Contains(src, "NZ10_Wellington")
           /\ datum.dest =
                 IF i \in {1, 2, 3} THEN src \o <<"NZVD2016">>
                 ELSE SubSeq(src, 1, Len(src) - 2) \o <<"NZVD2016">>

C15_Witness ==
    /\ datum.pc = "done"
    /\ Contains(datum.src_dir, "Auckland_1946")
    /\ datum.gtxfile = "auckht1946-nzvd2016.gtx"
    /\ \E f \in datum.fs : f.data[1] = "nzvd"

\* ------------------------------------------- utils.py: configuration
\* The value of an environment variable: Unset when os.getenv finds none,
\* "" when it is set but empty.
Unset == "<unset>"
EnvValues == {Unset, "", "value"}

\* get_env_variable(var_name) with the defaults default=None,
\* allow_empty=False, cast_to=str (lines 46-62)
get_env_variable(value) == IF value \in {Unset, ""} THEN "KeyError" ELSE value

\* ---- get_database / get_connection_from_profile / get_engine (90-130)
connection_keys ==
    <<"POSTGRES_HOST", "POSTGRES_PORT", "POSTGRES_DB", "POSTGRES_USER", "POSTGRES_PASSWORD">>
Envs == [Range(connection_keys) -> EnvValues]

\* lines 106-111: the credentials are read in order, the first KeyError
\* leaves the function; `reachable` says whether create_all reaches the
\* server
get_connection_from_profile(env, reachable) ==
    IF \E i \in 1..Len(connection_keys) : get_env_variable(env[connection_keys[i]]) = "KeyError"
    THEN [error |-> "KeyError", engine |-> FALSE]
    ELSE IF ~reachable THEN [error |-> "OperationalError", engine |-> FALSE]
    ELSE [error |-> "none", engine |-> TRUE]

\* lines 97-101: only ConnectionAbortedError is caught (and raised again)
get_database(env, reachable) ==
    LET r == get_connection_from_profile(env, reachable)
    IN  IF r.error = "ConnectionAbortedError"
        THEN [error |-> "ConnectionAbortedError", engine |-> FALSE]
        ELSE r

\* ---- map_dataset_name_with_id (210-221)
\* The base instructions file: its dataset_mapping section - "absent",
\* "null", "empty" ({}) or "filled", with the pairs under "lidar" and
\* whether it has other keys - and the rest of the document.
Pairs(table) ==
    \* dict(zip(df['name'], df['id'])) of the rows sorted by id: for a name
    \* on several rows the last one stays
    { <<table[i].name, table[i].id>> : i \in
        {i \in 1..Len(table) :
            \A j \in 1..Len(table) : table[j].name = table[i].name => table[j].id <= table[i].id} }
Sections ==
    [state : {"absent", "null", "empty"}, lidar : {{}}, extra : {FALSE}]
    \cup [state : {"filled"}, lidar : {{}, {<<"a", 1>>}, {<<"c", 7>>}}, extra : BOOLEAN]
BaseFiles == [dataset_mapping : Sections, rest : {"r1", "r2"}]

map_dataset_name_with_id(table, file) ==
    LET section == file.dataset_mapping
        lidar == {p \in Pairs(table) : p[1] # "Unknown"} \cup {<<"Unknown", 0>>}
    IN  IF section.state = "absent" THEN [error |-> "KeyError", file |-> file]
        ELSE IF section.state = "null" THEN [error |-> "TypeError", file |-> file]
        ELSE [error |-> "none",
              file |-> [file EXCEPT !.dataset_mapping =
                           [state |-> "filled", lidar |-> lidar, extra |-> FALSE]]]

\* ---- gen_instructions, the land layer (process.py 85-99)
LandEnvs == [LAND_FILE : EnvValues, LINZ_API_KEY : EnvValues]
gen_instructions_land(env, mode) ==
    LET v == get_env_variable(env.LAND_FILE)
        \* lines 85-89: the value read is never None here
        land == IF v # Unset THEN <<"../../", v>> ELSE Unset
    IN  IF v = "KeyError"
        THEN [error |-> "KeyError", land |-> Unset, linz |-> FALSE]
        ELSE IF mode = "api" /\ land = Unset
        THEN \* lines 92-96
             IF get_env_variable(env.LINZ_API_KEY) = "KeyError"
             THEN [error |-> "KeyError", land |-> land, linz |-> FALSE]
             ELSE [error |-> "none", land |-> land, linz |-> TRUE]
        ELSE [error |-> "none", land |-> land, linz |-> FALSE]

\* ---- the calls
call_get_database(env, reachable) ==
    /\ last' = [op |-> "get_database", env |-> env, reachable |-> reachable,
                result |-> get_database(env, reachable)]
    /\ UNCHANGED <<clock, dataset, dem, calls, files, run_pc, run_args, run_st, trace, writers, datum, frame>>

call_map_dataset_name_with_id(file) ==
    /\ last' = [op |-> "map_dataset_name_with_id", file |-> file,
                result |-> map_dataset_name_with_id(dataset, file)]
    /\ UNCHANGED <<clock, dataset, dem, calls, files, run_pc, run_args, run_st, trace, writers, datum, frame>>

call_gen_instructions(env, mode) ==
    /\ last' = [op |-> "gen_instructions", env |-> env, mode |-> mode,
                result |-> gen_instructions_land(env, mode)]
    /\ UNCHANGED <<clock, dataset, dem, calls, files, run_pc, run_args, run_st, trace, writers, datum, frame>>

\* ---- _cast_str (65-87) and get_env_variable with cast_to
ConfigStrings ==
    {"true", "True", "TRUE", "tRuE", "t", "T", "1", "false", "False", "FALSE", "fAlSe",
     "f", "F", "0", "yes", "Yes", "2", "on"}
CastTypes == {"bool", "str"}

_cast_str_exact(str_to_cast, cast_to) ==
    IF cast_to = "bool"
    THEN IF str_to_cast \in {"true", "t", "1"} THEN [error |-> "none", value |-> TRUE]
         ELSE IF str_to_cast \in {"false", "f", "0"} THEN [error |-> "none", value |-> FALSE]
         ELSE [error |-> "ValueError", value |-> FALSE]
    ELSE [error |-> "none", value |-> str_to_cast]
_cast_str(str_to_cast, cast_to) ==
    IF cast_to = "bool"
    THEN IF Lower(str_to_cast) \in {"true", "t", "1"} THEN [error |-> "none", value |-> TRUE]
         ELSE IF Lower(str_to_cast) \in {"false", "f", "0"}
         THEN [error |-> "none", value |-> FALSE]
         ELSE [error |-> "ValueError", value |-> FALSE]
    ELSE \* cast_to(str_to_cast) with cast_to = str
         [error |-> "none", value |-> str_to_cast]

\* get_env_variable(var_name, cast_to=cast_to), lines 59-62
get_env_variable_as(value, cast_to) ==
    IF get_env_variable(value) = "KeyError"
    THEN [error |-> "KeyError", value |-> FALSE]
    ELSE _cast_str(value, cast_to)

call_get_env_variable(value, cast_to) ==
    /\ last' = [op |-> "get_env_variable", value |-> value, cast_to |-> cast_to,
                result |-> get_env_variable_as(value, cast_to)]
    /\ UNCHANGED <<clock, dataset, dem, calls, files, run_pc, run_args, run_st, trace, writers, datum, frame>>

\* ---- get_files (158-170): file_path_list is what rglob found
Found(n) == [k \in 1..n |-> <<"file", k>>]
get_files(found, expect) ==
    IF expect < 0 \/ (1 < expect /\ expect = Len(found))
    THEN [error |-> "none", value |-> found]
    ELSE IF expect = 1 /\ Len(found) = 1
    THEN [error |-> "none", value |-> found[1]]
    ELSE [error |-> "FileNotFoundError", value |-> <<>>]

call_get_files(found, expect) ==
    /\ last' = [op |-> "get_files", found |-> found, expect |-> expect,
                result |-> get_files(found, expect)]
    /\ UNCHANGED <<clock, dataset, dem, calls, files, run_pc, run_args, run_st, trace, writers, datum, frame>>

\* ---- retrieve_lidar (268-305), one dataset of datasets_dict
TileUuids == {1, 2, 3}
LidarRows ==
    {[uuid |-> 1, file_path |-> 3], [uuid |-> 1, file_path |-> 1],
     [uuid |-> 2, file_path |-> 2], [uuid |-> 3, file_path |-> 4]}

RECURSIVE sorted(_)
sorted(S) ==
    IF S = {} THEN <<>>
    ELSE LET m == CHOOSE x \in S : \A y \in S : x <= y
         IN <<m>> \o sorted(S \ {m})

\* line 285: the text put after IN
uuid_text(gdf) ==
    IF Cardinality(gdf) > 1
    THEN [kind |-> "tuple", uuids |-> gdf]
    ELSE \* str(f"({gdf['uuid']})"): the printed Series, index and dtype included
         [kind |-> "series", uuids |-> gdf]
\* lines 286-287: SELECT file_path FROM lidar WHERE uuid IN {uuid}
read_sql_lidar(uuid, lidar) ==
    IF uuid.kind = "tuple"
    THEN [error |-> "none", df |-> {r \in lidar : r.uuid \in uuid.uuids}]
    ELSE [error |-> "ProgrammingError", df |-> {}]
retrieve_lidar(gdf, lidar, has_tile_path) ==
    IF Cardinality(gdf) = 0 THEN [error |-> "AssertionError", file_paths |-> <<>>]
    ELSE LET q == read_sql_lidar(uuid_text(gdf), lidar)
         IN IF q.error # "none" THEN [error |-> q.error, file_paths |-> <<>>]
            ELSE IF Cardinality(q.df) = 0 THEN [error |-> "AssertionError", file_paths |-> <<>>]
            ELSE IF ~has_tile_path THEN [error |-> "IndexError", file_paths |-> <<>>]
            ELSE [error |-> "none", file_paths |-> sorted({r.file_path : r \in q.df})]

call_retrieve_lidar(gdf, lidar, has_tile_path) ==
    /\ last' = [op |-> "retrieve_lidar", gdf |-> gdf, lidar |-> lidar,
                has_tile_path |-> has_tile_path,
                result |-> retrieve_lidar(gdf, lidar, has_tile_path)]
    /\ UNCHANGED <<clock, dataset, dem, calls, files, run_pc, run_args, run_st, trace, writers, datum, frame>>

\* ---- remove_holes (342-371)
\* A part is an exterior ring, the areas of its interior rings, and where it
\* lies: outside every other part, or within interior ring j of part k (an
\* island in a lake), written <<k, j>>.
RingAreas == {1, 2, 3}
KeepThresholds == {1, 2}
Outside == <<>>
PartOne == {[exterior |-> "e1", interiors |-> i, inside |-> Outside] : i \in SeqsUpTo(RingAreas, 2)}
PartTwo(one) ==
    {[exterior |-> "e2", interiors |-> i, inside |-> w] :
        i \in SeqsUpTo(RingAreas, 1),
        w \in {Outside} \cup {<<1, j>> : j \in DOMAIN one.interiors}}
\* an island and its rings are smaller than the ring they lie in
ValidPolygon(polygon) ==
    \A k \in DOMAIN polygon :
        polygon[k].inside # Outside
        => \A j \in DOMAIN polygon[k].interiors :
               polygon[k].interiors[j] < polygon[polygon[k].inside[1]].interiors[polygon[k].inside[2]]
Polygons ==
    {p \in {<<one>> : one \in PartOne}
           \cup UNION {{<<one, two>> : two \in PartTwo(one)} : one \in PartOne} :
        ValidPolygon(p)}

\* line 362
keeps(area, keep_threshold) == area > keep_threshold
\* lines 358-364 and 365: the part rebuilt with the kept rings as holes
temp_polygon(polygon, k, keep_threshold) ==
    [exterior |-> polygon[k].exterior,
     holes |-> {<<k, j>> : j \in {j \in DOMAIN polygon[k].interiors :
                                      keeps(polygon[k].interiors[j], keep_threshold)}},
     inside |-> polygon[k].inside]
\* line 370: a part lying in a ring that is no longer a hole is covered by
\* the part around it and dissolves in the union
unary_union(list_parts) ==
    {[exterior |-> list_parts[k].exterior, holes |-> list_parts[k].holes] :
        k \in {k \in DOMAIN list_parts :
                 \/ list_parts[k].inside = Outside
                 \/ list_parts[k].inside \in list_parts[list_parts[k].inside[1]].holes}}
remove_holes(polygon, keep_threshold) ==
    unary_union([k \in DOMAIN polygon |-> temp_polygon(polygon, k, keep_threshold)])

call_remove_holes(polygon, keep_threshold) ==
    /\ last' = [op |-> "remove_holes", polygon |-> polygon, keep_threshold |-> keep_threshold,
                result |-> remove_holes(polygon, keep_threshold)]
    /\ UNCHANGED <<clock, dataset, dem, calls, files, run_pc, run_args, run_st, trace, writers, datum, frame>>

\* ---- run, lines 229-234: the base file is parsed into `instructions`,
\* then map_dataset_name_with_id rewrites the file on disk
read_instructions(table, instructions_file) ==
    LET instructions == instructions_file
        mapped == map_dataset_name_with_id(table, instructions_file)
    IN  [error |-> mapped.error, instructions |-> instructions, instructions_file |-> mapped.file]

call_read_instructions(instructions_file) ==
    /\ last' = [op |-> "read_instructions", file |-> instructions_file,
                result |-> read_instructions(dataset, instructions_file)]
    /\ UNCHANGED <<clock, dataset, dem, calls, files, run_pc, run_args, run_st, trace, writers, datum, frame>>

\* the Dataset table the mapping is read from
DatasetRow(id, name) ==
    [id |-> id, name |-> name, payload |-> 1, created_at |-> 0, updated_at |-> 0]
MapTables ==
    { <<>>, <<DatasetRow(1, "a")>>, <<DatasetRow(1, "a"), DatasetRow(2, "b")>>,
      <<DatasetRow(2, "b"), DatasetRow(1, "a")>> }

InitUtil ==
    /\ clock = 0
    /\ dataset \in MapTables
    /\ dem = <<>>
    /\ calls = 0
    /\ last = NoCall
    /\ files = {}
    /\ run_pc = "idle"
    /\ run_args = NoCall
    /\ run_st = NoCall
    /\ trace = <<>>
    /\ writers = <<>>
    /\ datum = NoCall
    /\ frame = NoCall

\* one call in a behaviour: the functions keep nothing between calls
NextUtil ==
    \/ last = NoCall /\ \E env \in Envs, reachable \in BOOLEAN : call_get_database(env, reachable)
    \/ last = NoCall /\ \E file \in BaseFiles : call_map_dataset_name_with_id(file)
    \/ last = NoCall /\ \E env \in LandEnvs, mode \in Modes : call_gen_instructions(env, mode)
    \/ last = NoCall /\ \E value \in ConfigStrings \cup EnvValues, cast_to \in CastTypes :
          call_get_env_variable(value, cast_to)
    \/ last = NoCall /\ \E n \in 0..MaxFiles, expect \in (-1)..(MaxFiles + 1) :
          call_get_files(Found(n), expect)
    \/ last = NoCall /\ \E gdf \in SUBSET TileUuids, lidar \in SUBSET LidarRows,
                            has_tile_path \in BOOLEAN :
          call_retrieve_lidar(gdf, lidar, has_tile_path)
    \/ last = NoCall /\ \E polygon \in Polygons, keep_threshold \in KeepThresholds :
          call_remove_holes(polygon, keep_threshold)
    \/ last = NoCall /\ \E file \in BaseFiles : call_read_instructions(file)

SpecUtil == InitUtil /\ [][NextUtil]_vars

\* C18: map_dataset_name_with_id completes on every base file, with or
\* without a dataset_mapping section, and leaves dataset_mapping.lidar
\* equal to the name -> id pairs of the Dataset table plus "Unknown" -> 0,
\* the rest of the file unchanged.
C18_MappingInjected ==
    last.op = "map_dataset_name_with_id"
    => /\ last.result.error = "none"
       /\ last.result.file.dataset_mapping.lidar =
             {<<dataset[i].name, dataset[i].id>> : i \in 1..Len(dataset)}
             \cup {<<"Unknown", 0>>}
       /\ last.result.file.rest = last.file.rest

\* C19: LAND_FILE is optional: unset or empty, gen_instructions completes
\* with data_paths.land unset and, in api mode, the LINZ descriptor
\* injected; set, data_paths.land is set and no descriptor is injected.
C19_LandFileOptional ==
    last.op = "gen_instructions"
    => IF last.env.LAND_FILE \in {Unset, ""}
       THEN /\ last.result.error = "none"
            /\ last.result.land = Unset
            /\ last.mode = "api" => last.result.linz
       ELSE /\ last.result.land # Unset
            /\ ~last.result.linz

\* C20: with any of the five credentials unset or empty get_database
\* fails with ConnectionAbortedError, and creates no engine.
C20_MissingCredentialAborts ==
    (/\ last.op = "get_database"
     /\ \E k \in Range(connection_keys) : last.env[k] \in {Unset, ""})
    => /\ last.result.error = "ConnectionAbortedError"
       /\ ~last.result.engine

\* C21: with cast_to=bool the configuration reader yields true for every
\* spelling of true, t and 1, false for every spelling of false, f and 0,
\* and fails with ValueError on every other non-empty string.
C21_BoolCoercion ==
    (/\ last.op = "get_env_variable"
     /\ last.cast_to = "bool"
     /\ last.value \notin {Unset, ""})
    => IF last.value \in {"true", "True", "TRUE", "tRuE", "t", "T", "1"}
       THEN last.result = [error |-> "none", value |-> TRUE]
       ELSE IF last.value \in {"false", "False", "FALSE", "fAlSe", "f", "F", "0"}
       THEN last.result = [error |-> "none", value |-> FALSE]
       ELSE last.result.error = "ValueError"

C21_Witness ==
    /\ last.op = "get_env_variable"
    /\ last.cast_to = "bool"
    /\ last.value = "fAlSe"
    /\ last.result = [error |-> "none", value |-> FALSE]

\* C22: with expect >= 0 get_files fails with FileNotFoundError exactly
\* when the number of files found differs from expect, and returns what it
\* found (the one path for expect = 1) when it equals expect, 0 included;
\* with expect < 0 it returns the list.
C22_ExpectedCount ==
    last.op = "get_files"
    => IF last.expect < 0
       THEN last.result = [error |-> "none", value |-> last.found]
       ELSE IF Len(last.found) # last.expect
       THEN last.result.error = "FileNotFoundError"
       ELSE /\ last.result.error = "none"
            /\ last.result.value = IF last.expect = 1 THEN last.found[1] ELSE last.found

\* C23: for any number n >= 1 of intersecting tiles of a matched dataset,
\* n = 1 included, retrieve_lidar returns the sorted file paths of exactly
\* the Lidar rows whose uuid is one of those tiles; it fails with an
\* assertion error when there is no intersecting tile or no such Lidar row.
C23_FilePathsOfTiles ==
    (last.op = "retrieve_lidar" /\ last.has_tile_path)
    => LET rows == {r \in last.lidar : r.uuid \in last.gdf}
       IN IF last.gdf = {} \/ rows = {}
          THEN last.result.error = "AssertionError"
          ELSE /\ last.result.error = "none"
               /\ Range(last.result.file_paths) = {r.file_path : r \in rows}
               /\ \A i \in 1..(Len(last.result.file_paths) - 1) :
                      last.result.file_paths[i] <= last.result.file_paths[i + 1]

\* C26: remove_holes leaves every part with its exterior ring unchanged and
\* with exactly those interior rings as holes whose area is strictly greater
\* than keep_threshold; every other ring is filled.
C26_HolesKeptIffLarge ==
    last.op = "remove_holes"
    => /\ Cardinality(last.result) = Len(last.polygon)
       /\ \A k \in DOMAIN last.polygon :
              \E part \in last.result :
                  /\ part.exterior = last.polygon[k].exterior
                  /\ part.holes = {<<k, j>> : j \in {j \in DOMAIN last.polygon[k].interiors :
                                        last.polygon[k].interiors[j] > last.keep_threshold}}

\* C29: the instructions document process.run holds in memory for its
\* catchments carries the dataset_mapping (name -> id plus Unknown -> 0)
\* that the same run's map_dataset_name_with_id wrote from the Dataset
\* table.
C29_MemoryHasFreshMapping ==
    (last.op = "read_instructions" /\ last.result.error = "none")
    => /\ last.result.instructions.dataset_mapping.state = "filled"
       /\ last.result.instructions.dataset_mapping.lidar =
             last.result.instructions_file.dataset_mapping.lidar

\* the files os.walk(src_dir) finds when the commands are built
Discovered == {f \in datum.fs : IsPrefix(datum.src_dir, f.dir)}
CommandsOf(f) == {c \in datum.cmds : c.src_dir = f.dir /\ c.src_file = f.name}

\* C24: every discovered file whose name ends, in any letter-case, in .las,
\* .xyz or .xyzi yields exactly one command, with the LAS template for .las
\* and the XYZ template for .xyz and .xyzi, whose output name is the input's
\* stem followed by .laz; every other file yields no command.
C24_OneCommandStemLaz ==
    datum.pc = "prepared"
    => \A f \in Discovered :
          IF Lower(Suffix(f.name)) \in {".las", ".xyz", ".xyzi"}
          THEN /\ Cardinality(CommandsOf(f)) = 1
               /\ \A c \in CommandsOf(f) :
                     /\ c.pipeline = IF Lower(Suffix(f.name)) = ".las"
                                     THEN "pipeline_las.json" ELSE "pipeline_xyz.json"
                     /\ c.dest_file = Stem(f.name) \o <<".laz">>
          ELSE CommandsOf(f) = {}

\* C28: the commands handed to the pool are file-isolated: no two of them
\* write the same output path, and no command's output path is another
\* command's input path.
C28_CommandsFileIsolated ==
    datum.pc = "prepared"
    => \A c1 \in datum.cmds : \A c2 \in datum.cmds \ {c1} :
          /\ c1.dest_file # c2.dest_file
          /\ <<datum.dest, c1.dest_file>> # <<c2.src_dir, c2.src_file>>

\* the steps of one processed catchment, in the order of lines 294-305
Steps(i) ==
    << <<"boundary", i>>, <<"instructions", i>>, <<"raw", i>>, <<"hydro", i>>, <<"dem", i>> >>
Processed == last.op = "run_catchment" /\ last.ends # "skip"

\* C27: the steps of a processed catchment occur in the order boundary
\* file, instructions saved, raw-DEM pass, conditioning pass, DemRecord
\* upsert, each step only after all the steps before it; the conditioning
\* pass starts only if the raw pass completed, and the Dem table changes
\* only in a pass where both engine passes completed for the catchment.
C27_StepsInOrder ==
    /\ [](Processed =>
            /\ Len(trace) \in 1..5
            /\ trace = SubSeq(Steps(last.i), 1, Len(trace))
            /\ <<"hydro", last.i>> \in Range(trace) => last.s.eng.raw_ok
            /\ <<"dem", last.i>> \in Range(trace)
               => last.s.eng.raw_ok /\ last.s.eng.hydro_ok)
    /\ [][dem' # dem =>
            /\ last'.op = "run_catchment"
            /\ trace' = Steps(last'.i)
            /\ last'.s.eng.raw_ok /\ last'.s.eng.hydro_ok]_vars

C27_Witness ==
    /\ Processed
    /\ trace = Steps(last.i)
    /\ \E k \in 1..Len(dem) : dem[k].catch_id = last.i

\* C30: process.run called with neither catch_id nor area fails with the
\* ValueError "Please provide catch_id or area_limit." and processes
\* nothing.
C30_NoSelectionValueError ==
    (/\ last.op = "run"
     /\ last.args.catch_id.kind = "none"
     /\ last.args.area = None
     /\ last.args.has_mapping)
    => /\ last.error = "ValueError"
       /\ run_pc = "aborted"
       /\ run_st.catch_id = <<>>

\* ------------------------------------------------------------ katana
\* utils.py 439-473.  The recursion is followed along one path of its call
\* tree at a time: `frame` is the call katana(geometry, threshold, count)
\* the path is in, a split descends into one of the pieces the loop of
\* lines 457-463 recurses on (which one is free, so every path of the tree
\* is a behaviour), and a return carries one element of the result list
\* back up, one caller a step.  A geometry is its area, whether its
\* bounding box is at least as high as wide, and its type; the area of a
\* piece is at most the area of what was cut.
MaxRecursion == 250     \* line 444
MaxArea == 2
Thresholds == 0..(MaxArea - 1)
GeomKinds == {"Polygon", "MultiPolygon"}
Geometries == [area : 0..MaxArea, tall : BOOLEAN, kind : GeomKinds]
NoPart == [kind |-> "none"]

\* line 444
base_case_uncapped(geometry, threshold, count) == geometry.area <= threshold
base_case(geometry, threshold, count) ==
    geometry.area <= threshold \/ count = MaxRecursion

\* lines 448-455: the halved dimension
cut(geometry) == IF geometry.tall THEN "height" ELSE "width"

\* lines 457-463: c = geometry.intersection(d) is one geometry or a
\* GeometryCollection; e is a Polygon or MultiPolygon of it
Intersections(geometry) ==
    [collection : BOOLEAN,
     e : {g \in Geometries : g.area <= geometry.area}]

\* lines 444-447
katana_base ==
    /\ frame.pc = "call"
    /\ base_case(frame.geometry, frame.threshold, frame.count)
    /\ frame' = [frame EXCEPT
          !.pc = IF frame.count = 0 THEN "done" ELSE "return",
          !.count = IF frame.count = 0 THEN 0 ELSE @ - 1,
          !.part = [kind |-> frame.geometry.kind, area |-> frame.geometry.area,
                    capped |-> frame.count = MaxRecursion]]
    /\ UNCHANGED <<clock, dataset, dem, calls, last, files, run_pc, run_args, run_st, trace, writers, datum>>

\* lines 448-463.  `for e in c` on a GeometryCollection walks its members
\* or raises TypeError, as the installed shapely has it (`iterable`).
katana_split(c, iterable) ==
    /\ frame.pc = "call"
    /\ ~base_case(frame.geometry, frame.threshold, frame.count)
    /\ frame.count < MaxRecursion + 2
    /\ frame' = IF c.collection /\ ~iterable
                THEN [frame EXCEPT !.pc = "raised", !.axis = cut(frame.geometry)]
                ELSE [frame EXCEPT !.geometry = c.e, !.count = @ + 1,
                                   !.axis = cut(frame.geometry)]
    /\ UNCHANGED <<clock, dataset, dem, calls, last, files, run_pc, run_args, run_st, trace, writers, datum>>

\* lines 464-473: the caller at depth count has the part in `result`
katana_return ==
    /\ frame.pc = "return"
    /\ IF frame.count > 0
       THEN frame' = [frame EXCEPT !.count = @ - 1]
       ELSE \E area \in 0..frame.part.area :
               frame' = [frame EXCEPT
                  !.pc = "done",
                  !.part = IF frame.part.kind = "MultiPolygon"
                           THEN [@ EXCEPT !.kind = "Polygon", !.area = area]
                           ELSE @]
    /\ UNCHANGED <<clock, dataset, dem, calls, last, files, run_pc, run_args, run_st, trace, writers, datum>>

InitKatana ==
    /\ clock = 0
    /\ dataset = <<>>
    /\ dem = <<>>
    /\ calls = 0
    /\ last = NoCall
    /\ files = {}
    /\ run_pc = "idle"
    /\ run_args = NoCall
    /\ run_st = NoCall
    /\ trace = <<>>
    /\ writers = <<>>
    /\ datum = NoCall
    /\ \E geometry \in Geometries, threshold \in Thresholds :
          frame = [pc |-> "call", geometry |-> geometry, threshold |-> threshold,
                   count |-> 0, axis |-> "none", part |-> NoPart]

NextKatana ==
    \/ katana_base
    \/ \E c \in Intersections(frame.geometry), iterable \in BOOLEAN : katana_split(c, iterable)
    \/ katana_return

SpecKatana == InitKatana /\ [][NextKatana]_vars
\* every call of the path is run to its end
SpecKatanaFair == SpecKatana /\ WF_vars(NextKatana)

====
